---- MODULE Spec2Model ----
(***************************************************************************)
(* Model of software_agent/agent.py: the seven tools of the deployment     *)
(* orchestrator agent, the session state they read and write               *)
(* (tool_context.state), the two remote services behind                    *)
(* validate_workstation and deploy_software, and the workflow that         *)
(* root_agent.instruction prescribes for calling the tools.                *)
(*                                                                         *)
(* Spec      : the agent calls the tools as root_agent.instruction says.   *)
(* SpecTools : the tools alone, called in any order with any argument      *)
(*             (the tool list handed to LlmAgent, nothing more).           *)
(***************************************************************************)
EXTENDS Integers, Sequences, FiniteSets, TLC

VARIABLES
    state,            \* tool_context.state: a dict, keys appear when first written
    env,              \* os.environ: which of the two URL variables are set
    dialogue,         \* the step of the Main Workflow the agent is at
    pc,               \* position inside the current turn's tool chain
    turn,             \* the kind of user turn being processed
    attempts,         \* HTTP requests sent by the current gateway tool invocation
    verify_input,     \* software_name read by the last verify_software_availability
    verify_result,    \* dict returned by the last verify_software_availability
    validate_payload, \* payload posted by the last validate_workstation
    validate_result,  \* dict returned by the last validate_workstation
    deploy_payload,   \* payload posted by the last deploy_software
    deploy_result,    \* dict returned by the last deploy_software
    list_result,      \* dict returned by the last list_available_software
    validate_http,    \* what the post of the last validate_workstation came back with
    deploy_http,      \* what the post of the last deploy_software came back with
    declined,         \* the user has answered 'No' to a confirmation
    corrected,        \* the keys stored again since the last 'No'
    cancel_requested  \* the user has asked to abort the request

vars == << state, env, dialogue, pc, turn, attempts, verify_input, verify_result,
           validate_payload, validate_result, deploy_payload, deploy_result,
           list_result, validate_http, deploy_http, declined, corrected, cancel_requested >>

----------------------------------------------------------------------------
(* Values.  A software name is a sequence of character codes, so that      *)
(* str.lower() is computed; computer names and usernames are opaque.       *)

Zoom == << 90, 111, 111, 109 >>
zOOM == << 122, 79, 79, 109 >>
Zoo == << 90, 111, 111 >>
VLC == << 86, 76, 67 >>

SoftwareNames == { Zoom, zOOM, Zoo }
ComputerNames == { "WKS-1001", "WKS-2002" }
UserNames == { "jdoe", "asmith" }

APPROVED_SOFTWARE_LIST == << Zoom, VLC >>

NoResult == [status |-> "none", result |-> "none"]
NoPayload == << >>
NoHttp == [kind |-> "none", text |-> ""]

Result(s, r) == [status |-> s, result |-> r]

\* The fixed texts of the tools, by name.
MSG_COMPUTER_MISSING == "Deployment failed: Computername is missing from the conversation."
MSG_PARAMS_MISSING == "Deployment failed: One or more parameters were missing from the conversation."
MSG_TIMEOUT == "The deployment has been started, but the connection timed out while waiting for a final status. Please check the system for progress."
MSG_TECHNICAL == "A technical error occurred while trying to start the deployment."
MSG_SOFTWARE_MISSING == "Software name is missing from the conversation state for verification."
MSG_AVAILABLE == "Software is available for deployment."
MSG_NOT_APPROVED == "Software is not an approved software. Please choose from the list."
MSG_LIST == "The following software is available for deployment."

\* response.text of the remote services.  The validation service answers with
\* one of the two markers Step 2 looks for; the deployment service with a text
\* that is relayed as it is.
RESP_SUCCESS == "Success: the computer was found."
RESP_FAIL == "Fail: the computer was not found."
RESP_OTHER == "Request accepted."
ValidateTexts == { RESP_SUCCESS, RESP_FAIL }
DeployTexts == { RESP_OTHER }

\* Outcomes of `await client.post(...)` followed by raise_for_status().
HttpOutcomes(texts) ==
    { [kind |-> "ok", text |-> t] : t \in texts } \cup
    { [kind |-> k, text |-> ""] : k \in { "timeout", "http_error", "network_error" } }

----------------------------------------------------------------------------
(* Session state *)

Empty(key) == IF key = "software_name" THEN state[key] = << >> ELSE state[key] = ""

\* `not tool_context.state.get(key)`
Missing(key) == key \notin DOMAIN state \/ Empty(key)

Store(key, value) == [k \in DOMAIN state \cup {key} |-> IF k = key THEN value ELSE state[k]]

Lower(c) == IF c \in 65..90 THEN c + 32 ELSE c
lower(s) == [i \in DOMAIN s |-> Lower(s[i])]

InList(s, list) == \E i \in DOMAIN list : list[i] = s
normalized_approved_list == [i \in DOMAIN APPROVED_SOFTWARE_LIST |-> lower(APPROVED_SOFTWARE_LIST[i])]

----------------------------------------------------------------------------
(* The tools *)

update_computer_state(computer_name) == Store("computername", computer_name)

update_software_state(software_name) == Store("software_name", software_name)

update_user_state(username) == Store("username", username)

\* As verify_software_availability, comparing without lower().
verify_software_availability_case_sensitive ==
    IF Missing("software_name")
    THEN Result("error", MSG_SOFTWARE_MISSING)
    ELSE IF InList(state["software_name"], APPROVED_SOFTWARE_LIST)
         THEN Result("success", MSG_AVAILABLE)
         ELSE Result("fail", MSG_NOT_APPROVED)

verify_software_availability ==
    IF Missing("software_name")
    THEN Result("error", MSG_SOFTWARE_MISSING)
    ELSE IF InList(lower(state["software_name"]), normalized_approved_list)
         THEN Result("success", MSG_AVAILABLE)
         ELSE Result("fail", MSG_NOT_APPROVED)

\* sep.join(list)
RECURSIVE Join(_, _)
Join(list, sep) ==
    IF list = << >> THEN << >>
    ELSE IF Len(list) = 1 THEN list[1]
    ELSE list[1] \o sep \o Join(Tail(list), sep)

\* ", ".join(APPROVED_SOFTWARE_LIST)
available_str == Join(APPROVED_SOFTWARE_LIST, << 44, 32 >>)

\* The values the f-string of the returned 'result' is made of.
verify_software_availability_message ==
    IF Missing("software_name")
    THEN << MSG_SOFTWARE_MISSING >>
    ELSE IF InList(lower(state["software_name"]), normalized_approved_list)
         THEN << MSG_AVAILABLE, state["software_name"] >>
         ELSE << MSG_NOT_APPROVED, state["software_name"], available_str >>

list_available_software == Result("success", MSG_LIST)

\* Not a return value: the tool goes on to `await client.post(...)`.
POST == Result("post", "post")

\* fetch_id_token(auth_req, function_url) returns a token or raises.
TokenOutcomes == { "token", "raises" }

\* As validate_workstation_entry, with the URL check ahead of the `try`: the
\* ValueError leaves the tool.
validate_workstation_entry_raises ==
    IF ~env.VALIDATE_COMPUTER_URL
    THEN { Result("raised", "VALIDATE_COMPUTER_URL environment variable is not set.") }
    ELSE IF Missing("computername")
         THEN { Result("error", MSG_COMPUTER_MISSING) }
         ELSE { IF t = "raises" THEN Result("error", MSG_TECHNICAL) ELSE POST
                : t \in TokenOutcomes }

\* validate_workstation up to the post: the dict it returns at once, or POST.
validate_workstation_entry ==
    IF ~env.VALIDATE_COMPUTER_URL
    THEN { Result("error", MSG_TECHNICAL) }
    ELSE IF Missing("computername")
         THEN { Result("error", MSG_COMPUTER_MISSING) }
         ELSE { IF t = "raises" THEN Result("error", MSG_TECHNICAL) ELSE POST
                : t \in TokenOutcomes }

\* As validate_workstation_exit, with the timeout caught by `except Exception`.
validate_workstation_exit_timeout_error(http) ==
    CASE http.kind = "ok" -> Result("success", http.text)
      [] OTHER -> Result("error", MSG_TECHNICAL)

\* validate_workstation from the response of the post to its return.
validate_workstation_exit(http) ==
    CASE http.kind = "ok" -> Result("success", http.text)
      [] http.kind = "timeout" -> Result("success", MSG_TIMEOUT)
      [] OTHER -> Result("error", MSG_TECHNICAL)

\* deploy_software up to the post.
deploy_software_entry ==
    IF ~env.DEPLOY_SOFTWARE_URL
    THEN { Result("error", MSG_TECHNICAL) }
    ELSE IF Missing("software_name") \/ Missing("computername") \/ Missing("username")
         THEN { Result("error", MSG_PARAMS_MISSING) }
         ELSE { IF t = "raises" THEN Result("error", MSG_TECHNICAL) ELSE POST
                : t \in TokenOutcomes }

\* As deploy_software_exit, with the timeout caught by `except Exception`.
deploy_software_exit_timeout_error(http) ==
    CASE http.kind = "ok" -> Result("success", http.text)
      [] OTHER -> Result("error", MSG_TECHNICAL)

\* As deploy_software_exit, with every exception answered as the timeout is.
deploy_software_exit_error_as_started(http) ==
    CASE http.kind = "ok" -> Result("success", http.text)
      [] OTHER -> Result("success", MSG_TIMEOUT)

\* As deploy_software_exit, answering a response with a text of its own.
deploy_software_exit_fixed_text(http) ==
    CASE http.kind = "ok" -> Result("success", MSG_AVAILABLE)
      [] http.kind = "timeout" -> Result("success", MSG_TIMEOUT)
      [] OTHER -> Result("error", MSG_TECHNICAL)

\* deploy_software from the response of the post to its return.
deploy_software_exit(http) ==
    CASE http.kind = "ok" -> Result("success", http.text)
      [] http.kind = "timeout" -> Result("success", MSG_TIMEOUT)
      [] OTHER -> Result("error", MSG_TECHNICAL)

\* As validate_workstation_payload, reading the key "username".
validate_workstation_payload_wrong_key ==
    << IF "username" \in DOMAIN state THEN state["username"] ELSE "" >>

validate_workstation_payload == << state["computername"] >>

deploy_software_payload ==
    << state["software_name"], state["computername"], state["username"] >>

----------------------------------------------------------------------------
(* root_agent.instruction *)

\* Step 4 trigger: all three state variables have been collected and saved.
Step4Trigger ==
    ~Missing("software_name") /\ ~Missing("computername") /\ ~Missing("username")

\* As Proceed, always asking the next step's question.
Proceed_literal(next) == {next}

\* "immediately proceed by asking ..." the next step's question; once the
\* Step 4 trigger holds the agent may as well present the confirmation.
Proceed(next) ==
    {next} \cup (IF Step4Trigger THEN {"AwaitingConfirmation"} ELSE {})

\* Step 2 markers, looked for in the 'result' text.
ContainsSuccess(text) == text \in { RESP_SUCCESS }
ContainsFail(text) == text \in { RESP_FAIL }

\* Step 1 response logic: the steps the agent may be at after the tool result r.
Step1Response(r) ==
    IF r.status = "success" THEN Proceed("CollectingComputer")
    ELSE {"CollectingSoftware"}

\* Step 2 response logic.  The instruction names two cases; a result with
\* neither marker is left to the agent, which has the tool's status to go by.
Step2Response(r) ==
    IF ContainsSuccess(r.result) THEN Proceed("CollectingUsername")
    ELSE IF ContainsFail(r.result) THEN {"CollectingComputer"}
    ELSE IF r.status = "success"
         THEN Proceed("CollectingUsername") \cup {"CollectingComputer"}
         ELSE {"CollectingComputer"}

\* Step 3: once the username is saved, proceed to the final confirmation.
Step3Response ==
    IF Step4Trigger' THEN "AwaitingConfirmation" ELSE dialogue

\* Step 4, 'Yes': relay the result of deploy_software and conclude.
Step4Response(r) == "Done"

\* Step 4, 'No': return to step 1, 2 or 3.
CorrectionSteps == { "CollectingSoftware", "CollectingComputer", "CollectingUsername" }

Collecting == dialogue \in CorrectionSteps \cup { "AwaitingConfirmation" }

----------------------------------------------------------------------------
(* Initial state: a new session, nothing stored, no tool called yet. *)

Init ==
    /\ state = << >>
    /\ env \in [{"VALIDATE_COMPUTER_URL", "DEPLOY_SOFTWARE_URL"} -> BOOLEAN]
    /\ dialogue = "CollectingSoftware"
    /\ pc = "idle"
    /\ turn = "none"
    /\ attempts = 0
    /\ verify_input = << >>
    /\ verify_result = NoResult
    /\ validate_payload = NoPayload
    /\ validate_result = NoResult
    /\ deploy_payload = NoPayload
    /\ deploy_result = NoResult
    /\ list_result = NoResult
    /\ validate_http = NoHttp
    /\ deploy_http = NoHttp
    /\ declined = FALSE
    /\ corrected = {}
    /\ cancel_requested = FALSE

----------------------------------------------------------------------------
(* One tool call each.  `agent` says whether the caller follows            *)
(* root_agent.instruction (the response logic moves the dialogue and the   *)
(* chain continues) or is any caller of the tool.                          *)

DoVerify(agent) ==
    /\ verify_input' = (IF "software_name" \in DOMAIN state THEN state["software_name"] ELSE << >>)
    /\ verify_result' = verify_software_availability
    /\ dialogue' \in (IF agent THEN Step1Response(verify_result') ELSE {dialogue})
    /\ pc' = "idle"
    /\ UNCHANGED << state, env, turn, attempts, validate_payload, validate_result,
                    deploy_payload, deploy_result, list_result,
                    validate_http, deploy_http, declined, corrected, cancel_requested >>

DoValidateCall(agent) ==
    \E o \in validate_workstation_entry :
        IF o = POST
        THEN /\ validate_payload' = validate_workstation_payload
             /\ attempts' = 1
             /\ validate_http' = NoHttp
             /\ pc' = "validate_inflight"
             /\ UNCHANGED << state, env, dialogue, turn, verify_input, verify_result,
                             validate_result, deploy_payload, deploy_result, list_result,
                             deploy_http, declined, corrected, cancel_requested >>
        ELSE /\ validate_result' = o
             /\ attempts' = 0
             /\ validate_http' = NoHttp
             /\ dialogue' \in (IF agent THEN Step2Response(o) ELSE {dialogue})
             /\ pc' = "idle"
             /\ UNCHANGED << state, env, turn, verify_input, verify_result,
                             validate_payload, deploy_payload, deploy_result, list_result,
                             deploy_http, declined, corrected, cancel_requested >>

DoValidateReturn(agent) ==
    \E http \in HttpOutcomes(ValidateTexts) :
        /\ validate_http' = http
        /\ validate_result' = validate_workstation_exit(http)
        /\ dialogue' \in (IF agent THEN Step2Response(validate_result') ELSE {dialogue})
        /\ pc' = "idle"
        /\ UNCHANGED << state, env, turn, attempts, verify_input, verify_result,
                        validate_payload, deploy_payload, deploy_result, list_result,
                        deploy_http, declined, corrected, cancel_requested >>

DoDeployCall(agent) ==
    \E o \in deploy_software_entry :
        IF o = POST
        THEN /\ deploy_payload' = deploy_software_payload
             /\ attempts' = 1
             /\ deploy_http' = NoHttp
             /\ pc' = "deploy_inflight"
             /\ UNCHANGED << state, env, dialogue, turn, verify_input, verify_result,
                             validate_payload, validate_result, deploy_result, list_result,
                             validate_http, declined, corrected, cancel_requested >>
        ELSE /\ deploy_result' = o
             /\ attempts' = 0
             /\ deploy_http' = NoHttp
             /\ dialogue' = (IF agent THEN Step4Response(o) ELSE dialogue)
             /\ pc' = "idle"
             /\ UNCHANGED << state, env, turn, verify_input, verify_result,
                             validate_payload, validate_result, deploy_payload, list_result,
                             validate_http, declined, corrected, cancel_requested >>

DoDeployReturn(agent) ==
    \E http \in HttpOutcomes(DeployTexts) :
        /\ deploy_http' = http
        /\ deploy_result' = deploy_software_exit(http)
        /\ dialogue' = (IF agent THEN Step4Response(deploy_result') ELSE dialogue)
        /\ pc' = "idle"
        /\ UNCHANGED << state, env, turn, attempts, verify_input, verify_result,
                        validate_payload, validate_result, deploy_payload, list_result,
                        validate_http, declined, corrected, cancel_requested >>

----------------------------------------------------------------------------
(* Spec: the turns of a conversation led as root_agent.instruction says. *)

\* As ProvideSoftware, verifying only the first name of the session.
ProvideSoftware_verify_once ==
    /\ pc = "idle" /\ Collecting
    /\ \E software_name \in SoftwareNames : state' = update_software_state(software_name)
    /\ turn' = "software"
    /\ corrected' = (IF declined THEN corrected \cup {"software_name"} ELSE corrected)
    /\ pc' = (IF "software_name" \in DOMAIN state THEN "idle" ELSE "verify")
    /\ UNCHANGED << env, dialogue, attempts, verify_input, verify_result, validate_payload,
                    validate_result, deploy_payload, deploy_result, list_result,
                    validate_http, deploy_http, declined, cancel_requested >>

\* Step 1, atomic unit, first call: update_software_state.
ProvideSoftware ==
    /\ pc = "idle" /\ Collecting
    /\ \E software_name \in SoftwareNames : state' = update_software_state(software_name)
    /\ turn' = "software"
    /\ corrected' = (IF declined THEN corrected \cup {"software_name"} ELSE corrected)
    /\ pc' = "verify"
    /\ UNCHANGED << env, dialogue, attempts, verify_input, verify_result, validate_payload,
                    validate_result, deploy_payload, deploy_result, list_result,
                    validate_http, deploy_http, declined, cancel_requested >>

\* Step 1, atomic unit, second call: verify_software_availability.
VerifySoftware == pc = "verify" /\ DoVerify(TRUE)

\* As ProvideComputer, validating only the first name of the session.
ProvideComputer_validate_once ==
    /\ pc = "idle" /\ Collecting
    /\ \E computer_name \in ComputerNames : state' = update_computer_state(computer_name)
    /\ turn' = "computer"
    /\ corrected' = (IF declined THEN corrected \cup {"computername"} ELSE corrected)
    /\ pc' = (IF "computername" \in DOMAIN state THEN "idle" ELSE "validate")
    /\ UNCHANGED << env, dialogue, attempts, verify_input, verify_result, validate_payload,
                    validate_result, deploy_payload, deploy_result, list_result,
                    validate_http, deploy_http, declined, cancel_requested >>

\* Step 2, atomic unit, first call: update_computer_state.
ProvideComputer ==
    /\ pc = "idle" /\ Collecting
    /\ \E computer_name \in ComputerNames : state' = update_computer_state(computer_name)
    /\ turn' = "computer"
    /\ corrected' = (IF declined THEN corrected \cup {"computername"} ELSE corrected)
    /\ pc' = "validate"
    /\ UNCHANGED << env, dialogue, attempts, verify_input, verify_result, validate_payload,
                    validate_result, deploy_payload, deploy_result, list_result,
                    validate_http, deploy_http, declined, cancel_requested >>

\* Step 2, atomic unit, second call: validate_workstation.
ValidateCall == pc = "validate" /\ DoValidateCall(TRUE)

ValidateReturn == pc = "validate_inflight" /\ DoValidateReturn(TRUE)

\* Step 3: update_user_state, then on to the confirmation.
ProvideUsername ==
    /\ pc = "idle" /\ Collecting
    /\ \E username \in UserNames : state' = update_user_state(username)
    /\ turn' = "username"
    /\ corrected' = (IF declined THEN corrected \cup {"username"} ELSE corrected)
    /\ dialogue' = Step3Response
    /\ UNCHANGED << env, pc, attempts, verify_input, verify_result, validate_payload,
                    validate_result, deploy_payload, deploy_result, list_result,
                    validate_http, deploy_http, declined, cancel_requested >>

\* Step 4, 'Yes': call deploy_software.
ConfirmYes ==
    /\ pc = "idle" /\ dialogue = "AwaitingConfirmation"
    /\ turn' = "yes"
    /\ dialogue' = "Deploying"
    /\ pc' = "deploy"
    /\ UNCHANGED << state, env, attempts, verify_input, verify_result, validate_payload,
                    validate_result, deploy_payload, deploy_result, list_result,
                    validate_http, deploy_http, declined, corrected, cancel_requested >>

\* Step 4, 'No': ask what needs to be corrected and return to that step.
ConfirmNo ==
    /\ pc = "idle" /\ dialogue = "AwaitingConfirmation"
    /\ turn' = "no"
    /\ declined' = TRUE
    /\ corrected' = {}
    /\ dialogue' \in CorrectionSteps
    /\ UNCHANGED << state, env, pc, attempts, verify_input, verify_result, validate_payload,
                    validate_result, deploy_payload, deploy_result, list_result,
                    validate_http, deploy_http, cancel_requested >>

DeployCall == pc = "deploy" /\ DoDeployCall(TRUE)

\* As DeployReturn, calling deploy_software again when the post timed out.
DeployReturn_retry ==
    /\ pc = "deploy_inflight"
    /\ \E http \in HttpOutcomes(DeployTexts) :
          /\ deploy_http' = http
          /\ deploy_result' = deploy_software_exit(http)
          /\ IF http.kind = "timeout"
             THEN pc' = "deploy" /\ dialogue' = dialogue
             ELSE pc' = "idle" /\ dialogue' = Step4Response(deploy_result')
          /\ UNCHANGED << state, env, turn, attempts, verify_input, verify_result,
                          validate_payload, validate_result, deploy_payload, list_result,
                          validate_http, declined, corrected, cancel_requested >>

DeployReturn == pc = "deploy_inflight" /\ DoDeployReturn(TRUE)

\* Special case: the only action is to call list_available_software.
ListSoftware ==
    /\ pc = "idle" /\ Collecting
    /\ turn' = "list"
    /\ list_result' = list_available_software
    /\ UNCHANGED << state, env, dialogue, pc, attempts, verify_input, verify_result,
                    validate_payload, validate_result, deploy_payload, deploy_result,
                    validate_http, deploy_http, declined, corrected, cancel_requested >>

\* The user asks to abort.  No trigger of the instruction matches the turn and
\* no tool is called for it: the workflow stays at the step it is at.
CancelRequested ==
    /\ pc = "idle" /\ Collecting
    /\ turn' = "cancel"
    /\ cancel_requested' = TRUE
    /\ UNCHANGED << state, env, dialogue, pc, attempts, verify_input, verify_result,
                    validate_payload, validate_result, deploy_payload, deploy_result,
                    list_result, validate_http, deploy_http, declined, corrected >>

Next ==
    \/ ProvideSoftware
    \/ VerifySoftware
    \/ ProvideComputer
    \/ ValidateCall
    \/ ValidateReturn
    \/ ProvideUsername
    \/ ConfirmYes
    \/ ConfirmNo
    \/ DeployCall
    \/ DeployReturn
    \/ ListSoftware
    \/ CancelRequested

Spec == Init /\ [][Next]_vars

----------------------------------------------------------------------------
(* SpecTools: the tools as LlmAgent exposes them, any call at any time. *)

ToolFrame ==
    UNCHANGED << env, dialogue, pc, turn, attempts, verify_input, verify_result,
                 validate_payload, validate_result, deploy_payload, deploy_result,
                 list_result,
                 validate_http, deploy_http, declined, corrected, cancel_requested >>

ToolUpdateSoftware ==
    /\ pc = "idle"
    /\ \E software_name \in SoftwareNames \cup { << >> } :
           state' = update_software_state(software_name)
    /\ ToolFrame

ToolUpdateComputer ==
    /\ pc = "idle"
    /\ \E computer_name \in ComputerNames \cup { "" } :
           state' = update_computer_state(computer_name)
    /\ ToolFrame

ToolUpdateUser ==
    /\ pc = "idle"
    /\ \E username \in UserNames \cup { "" } : state' = update_user_state(username)
    /\ ToolFrame

ToolVerify == pc = "idle" /\ DoVerify(FALSE)

ToolValidateCall == pc = "idle" /\ DoValidateCall(FALSE)

ToolValidateReturn == pc = "validate_inflight" /\ DoValidateReturn(FALSE)

ToolDeployCall == pc = "idle" /\ DoDeployCall(FALSE)

ToolDeployReturn == pc = "deploy_inflight" /\ DoDeployReturn(FALSE)

ToolList ==
    /\ pc = "idle"
    /\ list_result' = list_available_software
    /\ UNCHANGED << state, env, dialogue, pc, turn, attempts, verify_input, verify_result,
                    validate_payload, validate_result, deploy_payload, deploy_result,
                    validate_http, deploy_http, declined, corrected, cancel_requested >>

NextTools ==
    \/ ToolUpdateSoftware
    \/ ToolUpdateComputer
    \/ ToolUpdateUser
    \/ ToolVerify
    \/ ToolValidateCall
    \/ ToolValidateReturn
    \/ ToolDeployCall
    \/ ToolDeployReturn
    \/ ToolList

SpecTools == Init /\ [][NextTools]_vars

----------------------------------------------------------------------------
(* The statuses of the session, read off the state of the program: the     *)
(* classification the response logic makes of the latest tool result, and  *)
(* PendingValidation while the tool chain of the field has not returned.   *)

SoftwareStatus ==
    IF "software_name" \notin DOMAIN state THEN "Unset"
    ELSE IF pc = "verify" \/ verify_result = NoResult THEN "PendingValidation"
    ELSE IF verify_result.status = "success" THEN "Approved"
    ELSE IF verify_result.status = "fail" THEN "Rejected"
    ELSE "PendingValidation"

ComputerStatus ==
    IF "computername" \notin DOMAIN state THEN "Unset"
    ELSE IF pc \in {"validate", "validate_inflight"} \/ validate_result = NoResult
         THEN "PendingValidation"
    ELSE IF ContainsSuccess(validate_result.result) THEN "Validated"
    ELSE IF ContainsFail(validate_result.result) THEN "Invalid"
    ELSE "Inconclusive"

DeploymentStatus ==
    IF pc = "deploy" THEN "Confirmed"
    ELSE IF pc = "deploy_inflight" THEN "Started"
    ELSE IF deploy_result = NoResult THEN "NotStarted"
    ELSE IF deploy_result.status = "error" THEN "FailedTechnical"
    ELSE IF deploy_result.result = MSG_TIMEOUT THEN "TimedOutUnknown"
    ELSE "Completed"

\* The step sends the deployment request.
DeployIssued == pc # "deploy_inflight" /\ pc' = "deploy_inflight"

\* The step is a return of validate_workstation, of deploy_software.
ValidateReturns == pc \in {"validate", "validate_inflight"} /\ pc' = "idle"
DeployReturns == pc \in {"deploy", "deploy_inflight"} /\ pc' = "idle"

----------------------------------------------------------------------------
(* C1: the deployment request is sent if and only if, when deploy_software *)
(* is called, software_status = Approved, computer_status = Validated,     *)
(* username is non-empty and the user has confirmed with yes.              *)
C1_DeployIffGate ==
    [][ DeployIssued <=>
          ( /\ pc = "deploy"
            /\ SoftwareStatus = "Approved"
            /\ ComputerStatus = "Validated"
            /\ ~Missing("username")
            /\ turn = "yes" ) ]_vars

(* C2: storing another computer name while computer_status is Validated   *)
(* makes the status PendingValidation, and the status becomes Validated    *)
(* only when a validation of the stored name returns the success marker.   *)
C2_OverwriteResetsValidation ==
    [][ /\ (ComputerStatus = "Validated" /\ state'["computername"] # state["computername"])
             => ComputerStatus' = "PendingValidation"
        /\ (ComputerStatus # "Validated" /\ ComputerStatus' = "Validated")
             => ( /\ pc = "validate_inflight"
                  /\ validate_payload = << state["computername"] >>
                  /\ validate_http'.kind = "ok"
                  /\ ContainsSuccess(validate_http'.text) ) ]_vars

\* A validated name has been overwritten by another one, not yet validated.
C2_Witness ==
    /\ pc = "validate"
    /\ ContainsSuccess(validate_result.result)
    /\ validate_payload # << state["computername"] >>

(* C3: whenever software_status is Approved or Rejected, the verification  *)
(* that produced it read the software_name now stored and its result is    *)
(* the result for that name.                                               *)
C3_StatusIsOfStoredName ==
    SoftwareStatus \in {"Approved", "Rejected"} =>
        /\ verify_input = state["software_name"]
        /\ verify_result = verify_software_availability

\* After a 'No', the software name was stored again and approved.
C3_Witness ==
    /\ "software_name" \in corrected
    /\ turn = "software"
    /\ pc = "idle"
    /\ SoftwareStatus = "Approved"

(* C4: a store of a software or computer name is followed in the same turn *)
(* by the matching validation, which reads the stored value; the status is *)
(* PendingValidation until the validation returns; and a turn that stored  *)
(* a name ends with a validation result for it, unless the validation      *)
(* returned before sending its request.                                    *)
C4_AtomicUpdateThenValidate ==
    /\ pc = "verify" => (turn = "software" /\ SoftwareStatus = "PendingValidation")
    /\ pc \in {"validate", "validate_inflight"}
         => (turn = "computer" /\ ComputerStatus = "PendingValidation")
    /\ pc = "validate_inflight" => validate_payload = << state["computername"] >>
    /\ (pc = "idle" /\ turn = "software")
         => (verify_result # NoResult /\ verify_input = state["software_name"])
    /\ (pc = "idle" /\ turn = "computer")
         => /\ validate_result # NoResult
            /\ attempts = 1 => ( /\ validate_payload = << state["computername"] >>
                                 /\ validate_http # NoHttp )

\* A second validation is in flight while an earlier result exists.
C4_Witness ==
    /\ pc = "validate_inflight"
    /\ validate_result # NoResult
    /\ verify_result # NoResult

(* C5: once a software or computer name has been stored again after a      *)
(* 'No', the deployment request is sent only if that name has been         *)
(* validated and the user has confirmed again.                             *)
C5_CorrectionRevalidates ==
    [][ DeployIssued =>
          /\ turn = "yes"
          /\ "software_name" \in corrected => SoftwareStatus = "Approved"
          /\ "computername" \in corrected => ComputerStatus = "Validated" ]_vars

(* C6: called with a required field absent or empty, validate_workstation  *)
(* and deploy_software return the missing-input result and send no         *)
(* request, whatever the environment.                                      *)
C6_MissingInputFirst ==
    [][ /\ ( /\ pc = "idle"
             /\ Missing("computername")
             /\ (validate_result' # validate_result \/ pc' = "validate_inflight") )
          => (pc' = "idle" /\ validate_result' = Result("error", MSG_COMPUTER_MISSING))
        /\ ( /\ pc = "idle"
             /\ (Missing("software_name") \/ Missing("computername") \/ Missing("username"))
             /\ (deploy_result' # deploy_result \/ pc' = "deploy_inflight") )
          => (pc' = "idle" /\ deploy_result' = Result("error", MSG_PARAMS_MISSING)) ]_vars

(* C7: an invocation of validate_workstation or deploy_software sends at   *)
(* most one request; after a timeout it has returned, and its result is    *)
(* neither an error nor a rejection.                                       *)
C7_TimeoutSingleRequest ==
    /\ attempts <= 1
    /\ validate_http.kind = "timeout"
         => /\ pc # "validate_inflight"
            /\ validate_result.status \notin {"error", "fail"}
            /\ validate_result.result # MSG_TECHNICAL
            /\ ~ContainsFail(validate_result.result)
    /\ deploy_http.kind = "timeout"
         => /\ pc # "deploy_inflight"
            /\ deploy_result.status \notin {"error", "fail"}
            /\ deploy_result.result # MSG_TECHNICAL

\* Both gateway calls have timed out in this session.
C7_Witness ==
    /\ validate_http.kind = "timeout"
    /\ deploy_http.kind = "timeout"
    /\ attempts = 1

(* C8: in CollectingComputer, a validation that ends with a timeout or a   *)
(* technical error leaves the machine in CollectingComputer with the       *)
(* computer not Validated; only a result with the success marker advances. *)
C8_InconclusiveStays ==
    [][ (dialogue = "CollectingComputer" /\ ValidateReturns) =>
          /\ validate_http'.kind # "ok"
               => (dialogue' = "CollectingComputer" /\ ComputerStatus' # "Validated")
          /\ dialogue' # "CollectingComputer"
               => ContainsSuccess(validate_result'.result) ]_vars

(* C9: after the deployment call timed out the machine is at Done with     *)
(* deployment_status = TimedOutUnknown, neither Completed nor              *)
(* FailedTechnical.                                                        *)
C9_DeployTimeoutIsUnknown ==
    (pc = "idle" /\ deploy_http.kind = "timeout") =>
        /\ dialogue = "Done"
        /\ DeploymentStatus = "TimedOutUnknown"
        /\ DeploymentStatus \notin {"Completed", "FailedTechnical"}

\* The deployment call has timed out.
C9_Witness ==
    /\ deploy_http.kind = "timeout"
    /\ dialogue = "Done"
    /\ deploy_payload = deploy_software_payload

\* The deployment call ends with a technical error: the URL is not set, no
\* token could be fetched, or the post failed.
DeployFailsTechnical ==
    /\ DeployReturns
    /\ (attempts' = 0 \/ deploy_http'.kind \in {"http_error", "network_error"})

(* C10, as stated: a deployment call that ends with a technical error      *)
(* returns the machine to AwaitingConfirmation with the three facts        *)
(* unchanged and an error result.                                          *)
C10_TechnicalErrorReturnsToConfirmation ==
    [][ DeployFailsTechnical =>
          /\ dialogue' = "AwaitingConfirmation"
          /\ state' = state
          /\ deploy_result'.status = "error" ]_vars

(* C10, amended: a deployment call that ends with a technical error        *)
(* concludes the conversation (Done) with the three facts unchanged, and   *)
(* its result is the generic technical-failure text with status error.     *)
C10_TechnicalErrorConcludes ==
    [][ DeployFailsTechnical =>
          /\ dialogue' = "Done"
          /\ state' = state
          /\ deploy_result' = Result("error", MSG_TECHNICAL) ]_vars

\* The post of the deployment call failed and the conversation is over.
C10_Witness ==
    /\ deploy_http.kind \in {"http_error", "network_error"}
    /\ deploy_result = Result("error", MSG_TECHNICAL)
    /\ dialogue = "Done"

----------------------------------------------------------------------------
\* Two names are equal up to the case of their letters.
EqualsIgnoreCase(a, b) ==
    /\ Len(a) = Len(b)
    /\ \A i \in 1..Len(a) :
          \/ a[i] = b[i]
          \/ (a[i] \in 65..90 /\ b[i] = a[i] + 32)
          \/ (a[i] \in 97..122 /\ b[i] = a[i] - 32)

\* "Zoom, VLC"
ApprovedListText == << 90, 111, 111, 109, 44, 32, 86, 76, 67 >>

(* C11: at the end of a software turn the verification result is 'success' *)
(* exactly when the stored name equals an entry of the approved list up to *)
(* case; otherwise it is 'fail', its message lists the approved list in    *)
(* registry order, and the dialogue is at CollectingSoftware.              *)
C11_CaseInsensitiveExactMatch ==
    (pc = "idle" /\ turn = "software") =>
        /\ verify_result.status \in {"success", "fail"}
        /\ verify_result.status = "success"
             <=> \E i \in DOMAIN APPROVED_SOFTWARE_LIST :
                    EqualsIgnoreCase(state["software_name"], APPROVED_SOFTWARE_LIST[i])
        /\ verify_result.status = "fail"
             => /\ dialogue = "CollectingSoftware"
                /\ verify_software_availability_message
                     = << MSG_NOT_APPROVED, state["software_name"], ApprovedListText >>

\* After a 'No', a name differing from an approved one only by case has been
\* stored and approved.
C11_Witness ==
    /\ pc = "idle" /\ turn = "software"
    /\ state["software_name"] = zOOM
    /\ verify_result.status = "success"
    /\ "software_name" \in corrected


C13_HappyPath ==
    [][ /\ ( /\ pc = "verify" /\ dialogue = "CollectingSoftware" /\ ~Step4Trigger
             /\ verify_result'.status = "success" )
          => dialogue' = "CollectingComputer"
        /\ ( /\ ValidateReturns /\ dialogue = "CollectingComputer" /\ ~Step4Trigger
             /\ ContainsSuccess(validate_result'.result) )
          => dialogue' = "CollectingUsername"
        /\ ( /\ pc = "idle" /\ dialogue = "CollectingUsername" /\ turn' = "username"
             /\ Step4Trigger' )
          => dialogue' = "AwaitingConfirmation"
        /\ (dialogue = "AwaitingConfirmation" /\ pc' = "deploy")
          => dialogue' = "Deploying"
        /\ (DeployReturns /\ deploy_http'.kind = "ok")
          => /\ dialogue' = "Done"
             /\ deploy_result' = Result("success", deploy_http'.text)
        /\ (dialogue' = "Deploying" /\ dialogue # "Deploying")
          => dialogue = "AwaitingConfirmation"
        /\ (dialogue' = "Done" /\ dialogue # "Done")
          => dialogue = "Deploying" ]_vars

\* The scenario has run to its end without a correction.
C13_Witness ==
    /\ dialogue = "Done"
    /\ ~declined
    /\ verify_result.status = "success"
    /\ ContainsSuccess(validate_result.result)
    /\ deploy_http.kind = "ok"
    /\ deploy_result.result = RESP_OTHER


\* The place of a step in the order of collection.
Rank(step) ==
    CASE step = "CollectingSoftware" -> 1
      [] step = "CollectingComputer" -> 2
      [] step = "CollectingUsername" -> 3
      [] step = "AwaitingConfirmation" -> 4
      [] OTHER -> 5

(* C14: in every step before deployment any of the three facts can be      *)
(* stored, a store changes no other fact, and the dialogue moves to a      *)
(* later step only when the fields before that step hold Approved,         *)
(* Validated and a non-empty value respectively.                           *)
C14_OutOfOrderStore ==
    [][ /\ (pc = "idle" /\ Collecting)
          => (ENABLED ProvideSoftware /\ ENABLED ProvideComputer /\ ENABLED ProvideUsername)
        /\ \A k \in DOMAIN state :
              /\ k \in DOMAIN state'
              /\ state'[k] # state[k]
                   => \A j \in DOMAIN state \ {k} : state'[j] = state[j]
        /\ (Rank(dialogue') > Rank(dialogue) /\ Rank(dialogue') <= 4)
          => /\ SoftwareStatus' = "Approved"
             /\ Rank(dialogue') > 2 => ComputerStatus' = "Validated"
             /\ Rank(dialogue') > 3 => ~Missing("username")' ]_vars


\* The dicts a gateway tool may return.
ValidateOutcomes ==
    { Result("success", t) : t \in ValidateTexts } \cup
    { Result("success", MSG_TIMEOUT), Result("error", MSG_TECHNICAL),
      Result("error", MSG_COMPUTER_MISSING) }
DeployOutcomes ==
    { Result("success", t) : t \in DeployTexts } \cup
    { Result("success", MSG_TIMEOUT), Result("error", MSG_TECHNICAL),
      Result("error", MSG_PARAMS_MISSING) }

(* C16: whatever fails in validate_workstation or deploy_software (URL not *)
(* set, no token, network error, error status, timeout), the tool returns  *)
(* one of its result dicts; a timeout gives the timeout result and every   *)
(* other failure the one fixed technical-error text.                       *)
C16_FaultsBecomeOutcomes ==
    /\ validate_result \in {NoResult} \cup ValidateOutcomes
    /\ deploy_result \in {NoResult} \cup DeployOutcomes
    /\ (validate_result # NoResult /\ ~env.VALIDATE_COMPUTER_URL)
         => validate_result = Result("error", MSG_TECHNICAL)
    /\ (deploy_result # NoResult /\ ~env.DEPLOY_SOFTWARE_URL)
         => deploy_result = Result("error", MSG_TECHNICAL)
    /\ (pc = "idle" /\ turn = "computer" /\ attempts = 0)
         => validate_result = Result("error", MSG_TECHNICAL)
    /\ (pc = "idle" /\ turn = "yes" /\ attempts = 0)
         => deploy_result = Result("error", MSG_TECHNICAL)
    /\ validate_http.kind \in {"http_error", "network_error"}
         => validate_result = Result("error", MSG_TECHNICAL)
    /\ deploy_http.kind \in {"http_error", "network_error"}
         => deploy_result = Result("error", MSG_TECHNICAL)
    /\ validate_http.kind = "timeout" => validate_result = Result("success", MSG_TIMEOUT)
    /\ deploy_http.kind = "timeout" => deploy_result = Result("success", MSG_TIMEOUT)

\* A network error in the validation and an unset URL in the deployment.
C16_Witness ==
    /\ validate_http.kind = "network_error"
    /\ ~env.DEPLOY_SOFTWARE_URL
    /\ deploy_result = Result("error", MSG_TECHNICAL)


InFlight(p) == p \in {"validate_inflight", "deploy_inflight"}

(* C17: once the user has asked to abort, no new gateway call is started, *)
(* a call in flight returns first, the machine is then in Aborted, and    *)
(* Aborted is never left.                                                 *)
C17_AbortHonoured ==
    [][ cancel_requested =>
          /\ ~(~InFlight(pc) /\ InFlight(pc'))
          /\ InFlight(pc) => (pc' = "idle" /\ dialogue' = "Aborted")
          /\ pc' = "idle" => dialogue' = "Aborted"
          /\ dialogue = "Aborted" => dialogue' = "Aborted" ]_vars


(* C18: a deployment request is sent only as the one call that follows a  *)
(* 'Yes' (no deploy_software call has been made since the session began), *)
(* the call posts once, and when it returns the conversation is over, so  *)
(* one confirmation never leads to two deployment requests.               *)
C18_OneCallPerConfirmation ==
    [][ /\ DeployIssued =>
             /\ pc = "deploy" /\ turn = "yes" /\ dialogue = "Deploying"
             /\ deploy_result = NoResult
             /\ deploy_http = NoHttp
             /\ deploy_payload = NoPayload
             /\ attempts' = 1
        /\ DeployReturns => (dialogue' = "Done" /\ attempts' <= 1)
        /\ dialogue = "Done" => (dialogue' = "Done" /\ pc' = "idle") ]_vars

\* The one deployment request of a confirmation timed out.
C18_Witness ==
    /\ dialogue = "Done" /\ turn = "yes"
    /\ deploy_payload # NoPayload
    /\ deploy_http.kind = "timeout"

(* C19: whenever the deployment request is sent, the computer name in it  *)
(* is the one the latest validate_workstation call posted and got the     *)
(* success marker for, the software name is the one the latest            *)
(* verify_software_availability call approved, and the three values are   *)
(* the stored ones shown at the confirmation the user answered with yes.  *)
C19_PayloadIsValidated ==
    [][ DeployIssued =>
          /\ deploy_payload' = deploy_software_payload
          /\ pc = "deploy" /\ turn = "yes"
          /\ ComputerStatus = "Validated"
          /\ validate_payload = << state["computername"] >>
          /\ SoftwareStatus = "Approved"
          /\ verify_input = state["software_name"] ]_vars

(* C20: validate_workstation never returns the result that says the       *)
(* deployment has been started; only deploy_software does.                *)
C20_StartedOnlyFromDeploy ==
    /\ validate_result.result # MSG_TIMEOUT
    /\ deploy_result.result = MSG_TIMEOUT => deploy_payload # NoPayload

====
